---------------------------- MODULE Spec2Model ----------------------------
(***************************************************************************)
(* The catalog server of norko-graphql-api: loadProductData, the resolvers *)
(* and transformProduct, as in src/corrected-auth-test.js lines 468-893.   *)
(*                                                                         *)
(* JavaScript values are encoded as follows.                               *)
(*   - a property that may be missing is a sequence of length 0 or 1:      *)
(*     None is undefined (or null), Some(v) is the value v;                *)
(*   - strings are TLA+ strings (Len, SubSeq and \o act on them);          *)
(*   - numbers are integers: prices in pence (299.99 is 29999), weights in *)
(*     tenths of a kilogram (6.5 is 65);                                   *)
(*   - an array is a sequence, indexed from 1 (JavaScript index i is i+1). *)
(***************************************************************************)
EXTENDS Integers, Sequences, FiniteSets, TLC

VARIABLES
    pc,                \* where the process is: "start", "loaded", "serving", "pure"
    primary,           \* the file at ../heatshop-scraper/crystallize-products.json
    secondary,         \* the file at ./crystallize-products.json
    productsData,      \* let productsData (line 469)
    productsMetadata,  \* let productsMetadata (line 470)
    call,              \* the operation last invoked, with its arguments
    ret                \* what that operation did: returned a value, or threw

vars == <<pc, primary, secondary, productsData, productsMetadata, call, ret>>

---------------------------------------------------------------------------
(* Bounds of the model *)

\* longest variants list of a raw record given to transformProduct
MaxVariants == 2
\* longest record list in a data file, and longest catalog queried
MaxCatalog == 2

---------------------------------------------------------------------------
(* JavaScript values *)

None == <<>>
Some(v) == <<v>>
IsDef(o) == Len(o) > 0
Val(o) == o[1]

\* truthiness of a string, a number, a boolean: what `x || y` and `!x` test
TruthyStr(o) == IsDef(o) /\ Val(o) # ""
TruthyNum(o) == IsDef(o) /\ Val(o) # 0
TruthyBool(o) == IsDef(o) /\ Val(o) = TRUE

\* a || b on strings and on numbers
OrStr(a, b) == IF TruthyStr(a) THEN a ELSE b
OrNum(a, b) == IF TruthyNum(a) THEN a ELSE b
\* a || b where a, when defined, is an object or an array (always truthy)
OrObj(a, b) == IF IsDef(a) THEN a ELSE b

\* String(x) of a template literal: `${undefined}` is "undefined"
TemplateStr(o) == IF IsDef(o) THEN Val(o) ELSE "undefined"

\* the decimal digits of a small non-negative integer
RECURSIVE IntToStr(_)
IntToStr(n) ==
    IF n < 10 THEN SubSeq("0123456789", n + 1, n + 1)
    ELSE IntToStr(n \div 10) \o SubSeq("0123456789", (n % 10) + 1, (n % 10) + 1)

CharAt(s, i) == SubSeq(s, i, i)

UpperCase == "ABCDEFGHIJKLMNOPQRSTUVWXYZ"
LowerCase == "abcdefghijklmnopqrstuvwxyz"

LowerChar(c) ==
    IF \E i \in 1..26 : CharAt(UpperCase, i) = c
    THEN CharAt(LowerCase, CHOOSE i \in 1..26 : CharAt(UpperCase, i) = c)
    ELSE c

\* String.prototype.toLowerCase, character by character (the string is
\* halved so that the evaluation stays shallow)
RECURSIVE toLowerCase(_)
toLowerCase(s) ==
    IF Len(s) = 0 THEN ""
    ELSE IF Len(s) = 1 THEN LowerChar(s)
    ELSE toLowerCase(SubSeq(s, 1, Len(s) \div 2))
         \o toLowerCase(SubSeq(s, (Len(s) \div 2) + 1, Len(s)))

\* String.prototype.includes: t occurs in s as a substring
includes(s, t) ==
    \E i \in 1..(Len(s) - Len(t) + 1) : SubSeq(s, i, i + Len(t) - 1) = t

\* s.replace(/<[^>]*>/g, ''): every "<", up to the first ">" after it, is
\* removed; a "<" with no ">" after it stays
TagStarts(s) ==
    {i \in 1..Len(s) : CharAt(s, i) = "<" /\ \E j \in (i + 1)..Len(s) : CharAt(s, j) = ">"}
RECURSIVE StripTags(_)
StripTags(s) ==
    IF TagStarts(s) = {} THEN s
    ELSE LET i == CHOOSE k \in TagStarts(s) : \A m \in TagStarts(s) : k <= m
             j == CHOOSE k \in (i + 1)..Len(s) :
                     /\ CharAt(s, k) = ">"
                     /\ \A m \in (i + 1)..(k - 1) : CharAt(s, m) # ">"
         IN  SubSeq(s, 1, i - 1) \o StripTags(SubSeq(s, j + 1, Len(s)))

\* the sequences over S of length lo..hi
SeqsOf(S, lo, hi) == UNION {[1..n -> S] : n \in lo..hi}

---------------------------------------------------------------------------
(* Raw product records: the objects of productsData *)

\* one element of components.specifications.chunks, or specifications.basic
Chunk(wattage, dimensions, weight, coverage, mounting, efficiency) ==
    [wattage |-> wattage, dimensions |-> dimensions, weight |-> weight,
     coverage |-> coverage, mounting |-> mounting, efficiency |-> efficiency]

\* the object literal {} used as specs
EmptyObject == Chunk(None, None, None, None, None, None)

Content(html, plainText) == [html |-> html, plainText |-> plainText]

Image(url, altText, alt) == [url |-> url, altText |-> altText, alt |-> alt]

Variant(name, sku, price, priceVariants, currency, stock, isDefault) ==
    [name |-> name, sku |-> sku, price |-> price, priceVariants |-> priceVariants,
     currency |-> currency, stock |-> stock, isDefault |-> isDefault]

\* product.components
Components(description, specifications, features, productImages, warranty) ==
    [description |-> description, specifications |-> specifications,
     features |-> features, productImages |-> productImages, warranty |-> warranty]

\* product.information
Information(description, features, warranty) ==
    [description |-> description, features |-> features, warranty |-> warranty]

\* product.specifications
Specifications(basic, coverage, efficiency) ==
    [basic |-> basic, coverage |-> coverage, efficiency |-> efficiency]

\* a raw record with no property at all
BlankRecord ==
    [id |-> None, name |-> None, path |-> None, category |-> None,
     sourceUrl |-> None, extractedAt |-> None, components |-> None,
     information |-> None, specifications |-> None, media |-> None,
     variants |-> None]

\* new Date().toISOString(): the time of the call, one opaque value
Now == "<now>"

generateSampleProducts ==
    << [BlankRecord EXCEPT
          !.id = Some("sample-panel-heater-600w"),
          !.name = Some("Sample 600W Infrared Panel Heater"),
          !.path = Some("/infrared-heaters/panel-heaters/sample-panel-heater-600w"),
          !.category = Some("Panel Heaters"),
          !.sourceUrl = Some("https://example.com/sample-heater"),
          !.extractedAt = Some(Now),
          !.components = Some(Components(
              Some([content |-> Some(Content(
                  Some("<p>High-quality 600W infrared panel heater for efficient and comfortable heating. Perfect for small to medium rooms.</p>"),
                  Some("High-quality 600W infrared panel heater for efficient and comfortable heating. Perfect for small to medium rooms.")))]),
              Some([chunks |-> Some(<<Chunk(Some(600), Some("800mm x 600mm x 20mm"),
                                            Some(65), Some("12-15m2"),
                                            Some("Wall mounted"),
                                            Some("A+ Energy Rating"))>>)]),
              Some([content |-> Some(Content(
                  Some("<ul><li>Energy efficient infrared heating</li><li>Easy wall installation</li><li>Silent operation</li><li>Thermostat compatible</li></ul>"),
                  Some("Energy efficient infrared heating, Easy wall installation, Silent operation, Thermostat compatible")))]),
              Some([images |-> Some(<<Image(Some("https://example.com/sample-heater-1.jpg"),
                                            Some("Sample 600W Panel Heater - Front View"),
                                            None)>>)]),
              Some([text |-> Some("5 year manufacturer warranty")]))),
          !.variants = Some(<<
              Variant(Some("600W White"), Some("SAM-600W-WHT"), Some(29999),
                      Some(<<[currency |-> Some("GBP")]>>), None, Some(15), Some(TRUE)),
              Variant(Some("600W Black"), Some("SAM-600W-BLK"), Some(29999),
                      Some(<<[currency |-> Some("GBP")]>>), None, Some(8), Some(FALSE))>>)],
       [BlankRecord EXCEPT
          !.id = Some("sample-panel-heater-900w"),
          !.name = Some("Sample 900W Infrared Panel Heater"),
          !.path = Some("/infrared-heaters/panel-heaters/sample-panel-heater-900w"),
          !.category = Some("Panel Heaters"),
          !.sourceUrl = Some("https://example.com/sample-heater-900w"),
          !.extractedAt = Some(Now),
          !.components = Some(Components(
              Some([content |-> Some(Content(
                  Some("<p>Powerful 900W infrared panel heater ideal for larger rooms and commercial spaces. Advanced heating technology.</p>"),
                  Some("Powerful 900W infrared panel heater ideal for larger rooms and commercial spaces. Advanced heating technology.")))]),
              Some([chunks |-> Some(<<Chunk(Some(900), Some("1200mm x 600mm x 20mm"),
                                            Some(85), Some("18-22m2"),
                                            Some("Wall mounted"),
                                            Some("A++ Energy Rating"))>>)]),
              Some([content |-> Some(Content(
                  Some("<ul><li>High efficiency infrared heating</li><li>Commercial grade construction</li><li>Low maintenance</li><li>Smart controls ready</li></ul>"),
                  Some("High efficiency infrared heating, Commercial grade construction, Low maintenance, Smart controls ready")))]),
              Some([images |-> Some(<<Image(Some("https://example.com/sample-heater-900w-1.jpg"),
                                            Some("Sample 900W Panel Heater - Front View"),
                                            None)>>)]),
              Some([text |-> Some("7 year manufacturer warranty")]))),
          !.variants = Some(<<
              Variant(Some("900W White"), Some("SAM-900W-WHT"), Some(44999),
                      Some(<<[currency |-> Some("GBP")]>>), None, Some(12), Some(TRUE))>>)] >>

---------------------------------------------------------------------------
(* transformProduct (lines 724-777) *)

\* a?.b: undefined when a is undefined, else a.b
Chain(a, field) == IF IsDef(a) THEN Val(a)[field] ELSE None

\* product.components?.specifications?.chunks[0] throws a TypeError when
\* specifications is there and has no chunks: chunks[0] has no "?."
ChunksMissing(product) ==
    /\ IsDef(Chain(product.components, "specifications"))
    /\ ~IsDef(Chain(Chain(product.components, "specifications"), "chunks"))

\* product.components?.specifications?.chunks[0], when it does not throw
FirstChunk(product) ==
    LET chunks == Chain(Chain(product.components, "specifications"), "chunks")
    IN  IF IsDef(chunks) /\ Len(Val(chunks)) > 0 THEN Some(Val(chunks)[1]) ELSE None

\* a choice of the specifications that prefers specifications.basic
SpecsOfBasicFirst(product) ==
    Val(OrObj(Chain(product.specifications, "basic"),
              OrObj(FirstChunk(product), Some(EmptyObject))))

\* const specs = ...chunks[0] || product.specifications?.basic || {}
SpecsOf(product) ==
    Val(OrObj(FirstChunk(product),
              OrObj(Chain(product.specifications, "basic"), Some(EmptyObject))))

\* information?.<field>?.replace(/<[^>]*>/g, '')
Stripped(o) == IF IsDef(o) THEN Some(StripTags(Val(o))) ELSE None

\* const description = components?.description?.content || {html: ..., plainText: ...}
DescriptionOf(product) ==
    LET content == Chain(Chain(product.components, "description"), "content")
        info == Chain(product.information, "description")
    IN  IF IsDef(content) THEN Val(content)
        ELSE Content(OrStr(info, Some("<p>High-quality infrared heater.</p>")),
                     OrStr(Stripped(info), Some("High-quality infrared heater.")))

\* const features = components?.features?.content || {html: ..., plainText: ...}
FeaturesOf(product) ==
    LET content == Chain(Chain(product.components, "features"), "content")
        info == Chain(product.information, "features")
    IN  IF IsDef(content) THEN Val(content)
        ELSE Content(OrStr(info, Some("<ul><li>Energy efficient heating</li></ul>")),
                     OrStr(Stripped(info), Some("Energy efficient heating")))

\* const images = components?.productImages?.images || media?.images || []
ImagesOf(product) ==
    Val(OrObj(Chain(Chain(product.components, "productImages"), "images"),
              OrObj(Chain(product.media, "images"), Some(<<>>))))

\* img => ({url: img.url, altText: img.altText || img.alt || 'Product image'})
TransformImage(img) ==
    [url |-> img.url,
     altText |-> OrStr(img.altText, OrStr(img.alt, Some("Product image")))]

\* variant.priceVariants?.[0]?.currency || variant.currency || 'GBP'
CurrencyOf(variant) ==
    LET pvs == variant.priceVariants
        first == IF IsDef(pvs) /\ Len(Val(pvs)) > 0 THEN Some(Val(pvs)[1]) ELSE None
    IN  OrStr(Chain(first, "currency"), OrStr(variant.currency, Some("GBP")))

\* stock: variant.stock || 10
DefaultStock == 10
StockOf(variant) == OrNum(variant.stock, Some(DefaultStock))

\* an isDefault that passes the flag of the raw variant on
IsDefaultAsFlagged(variant, index) == Some(TruthyBool(variant.isDefault))

\* isDefault: variant.isDefault || index === 0    (index counts from 0)
IsDefaultOf(variant, index) ==
    IF TruthyBool(variant.isDefault) THEN variant.isDefault ELSE Some(index = 0)

\* (variant, index) => ({id: `${product.id}-variant-${index}`, ...})
TransformVariant(product, variant, index) ==
    [id |-> Some(TemplateStr(product.id) \o "-variant-" \o IntToStr(index)),
     name |-> variant.name,
     sku |-> variant.sku,
     price |-> variant.price,
     currency |-> CurrencyOf(variant),
     stock |-> StockOf(variant),
     isDefault |-> IsDefaultOf(variant, index)]

\* product.variants[0], undefined for an empty list
FirstVariant(product) ==
    IF Len(Val(product.variants)) > 0 THEN Some(Val(product.variants)[1]) ELSE None

\* PriceOf, were it to take the price of the first variant flagged isDefault
PriceOfFlagged(product) ==
    LET vs == Val(product.variants)
        flagged == {i \in 1..Len(vs) : TruthyBool(vs[i].isDefault)}
        d == IF flagged = {} THEN 1
             ELSE CHOOSE i \in flagged : \A j \in flagged : i <= j
    IN  IF Len(vs) = 0 THEN Some(0) ELSE OrNum(vs[d].price, Some(0))

\* price: product.variants[0]?.price || 0
PriceOf(product) == OrNum(Chain(FirstVariant(product), "price"), Some(0))

\* currency: variants[0]?.priceVariants?.[0]?.currency || variants[0]?.currency || 'GBP'
ProductCurrencyOf(product) ==
    IF IsDef(FirstVariant(product)) THEN CurrencyOf(Val(FirstVariant(product)))
    ELSE Some("GBP")

\* warranty: components?.warranty?.text || information?.warranty || '2 year ...'
WarrantyOf(product) ==
    OrStr(Chain(Chain(product.components, "warranty"), "text"),
          OrStr(Chain(product.information, "warranty"),
                Some("2 year manufacturer warranty")))

\* transformProduct throws: chunks[0] of undefined (line 726), or
\* product.variants.map of undefined (line 762)
TransformThrows(product) == ChunksMissing(product) \/ ~IsDef(product.variants)

\* the object transformProduct returns (lines 737-776)
TransformValue(product) ==
    LET specs == SpecsOf(product)
        description == DescriptionOf(product)
        features == FeaturesOf(product)
        images == ImagesOf(product)
        variants == Val(product.variants)
    IN  [id |-> product.id,
         name |-> product.name,
         path |-> product.path,
         category |-> product.category,
         description |-> [html |-> description.html,
                          plainText |-> description.plainText],
         specifications |->
            [wattage |-> OrNum(specs.wattage, Some(0)),
             dimensions |-> OrStr(specs.dimensions, Some("Unknown")),
             weight |-> OrNum(specs.weight, Some(0)),
             coverage |-> OrStr(specs.coverage,
                                OrStr(Chain(product.specifications, "coverage"), None)),
             mounting |-> OrStr(specs.mounting, Some("Wall mounted")),
             efficiency |-> OrStr(specs.efficiency,
                                  OrStr(Chain(product.specifications, "efficiency"),
                                        Some("A+ Energy Rating")))],
         features |-> [html |-> features.html, plainText |-> features.plainText],
         images |-> [i \in 1..Len(images) |-> TransformImage(images[i])],
         variants |-> [i \in 1..Len(variants) |->
                          TransformVariant(product, variants[i], i - 1)],
         price |-> PriceOf(product),
         currency |-> ProductCurrencyOf(product),
         sourceUrl |-> OrStr(product.sourceUrl, None),
         extractedAt |-> OrStr(product.extractedAt, None),
         warranty |-> WarrantyOf(product)]

\* what a call returns or throws
Returned(v) == [status |-> "returned", value |-> v]
Threw == [status |-> "threw", value |-> None]
Pending == [status |-> "pending", value |-> None]

transformProduct(product) ==
    IF TransformThrows(product) THEN Threw ELSE Returned(TransformValue(product))

---------------------------------------------------------------------------
(* The raw records transformProduct is applied to *)

\* id, name, path and category: all there, or id and name missing
HeadChoices ==
    { [id |-> Some("ir-600"), name |-> Some("Infrared Panel 600"),
       path |-> Some("/heaters/ir-600"), category |-> Some("Panel Heaters")],
      [id |-> None, name |-> None,
       path |-> Some("/heaters/unnamed"), category |-> Some("Bar Heaters")] }

\* product.components.specifications: missing, without chunks, with an empty
\* chunks list, with a chunk that has a wattage, with a chunk that has none
CompSpecChoices ==
    { None,
      Some([chunks |-> None]),
      Some([chunks |-> Some(<<>>)]),
      Some([chunks |-> Some(<<Chunk(Some(600), Some("800mm x 600mm"), Some(65),
                                    Some("12-15m2"), Some("Ceiling mounted"),
                                    Some("A++ Energy Rating"))>>)]),
      Some([chunks |-> Some(<<Chunk(None, Some("1200mm x 600mm"), None,
                                    None, None, None)>>)]),
      Some([chunks |-> Some(<<Chunk(Some(0), None, None, None, None, None)>>)]) }

\* product.specifications: missing, with basic, with top-level fields only
SpecChoices ==
    { None,
      Some(Specifications(Some(Chunk(Some(900), None, Some(85), None, None, None)),
                          None, None)),
      Some(Specifications(None, Some("18-22m2"), Some("B Energy Rating"))) }

\* the description, under components.description and information.description
DescChoices ==
    { [comp |-> None, info |-> None],
      [comp |-> Some([content |-> Some(Content(Some("<p>Radiant heat</p>"),
                                               Some("Radiant heat")))]),
       info |-> None],
      [comp |-> Some([content |-> Some(Content(Some("<p>Radiant heat</p>"), None))]),
       info |-> None],
      [comp |-> None, info |-> Some("<p>Warm <b>glow</b></p>")] }

\* the images, under components.productImages.images and media.images
ImageChoices ==
    { [comp |-> None, media |-> None],
      [comp |-> Some([images |-> Some(<<Image(Some("/img/front.jpg"),
                                              Some("Front view"), None)>>)]),
       media |-> None],
      [comp |-> None,
       media |-> Some([images |-> Some(<<Image(Some("/img/side.jpg"), None,
                                               Some("Side view"))>>)])],
      [comp |-> None,
       media |-> Some([images |-> Some(<<Image(None, None, None)>>)])] }

\* raw variants: flagged default with a price list; unflagged with its own
\* currency; with nothing but a zero stock; flagged, free of charge
VariantChoices ==
    { Variant(Some("White"), Some("SKU-W"), Some(29999),
              Some(<<[currency |-> Some("GBP")]>>), None, Some(15), Some(TRUE)),
      Variant(Some("Black"), Some("SKU-B"), Some(44999),
              None, Some("EUR"), None, None),
      Variant(None, None, None, None, None, Some(0), Some(FALSE)),
      Variant(Some("Grey"), Some("SKU-G"), Some(0),
              Some(<<>>), None, Some(3), Some(TRUE)) }

\* product.variants: missing, or a list of 0..MaxVariants variants
VariantListChoices ==
    {None} \cup {Some(vs) : vs \in SeqsOf(VariantChoices, 0, MaxVariants)}

MkRaw(head, compSpec, spec, desc, img, variants) ==
    [BlankRecord EXCEPT
       !.id = head.id, !.name = head.name, !.path = head.path,
       !.category = head.category,
       !.components =
          IF IsDef(compSpec) \/ IsDef(desc.comp) \/ IsDef(img.comp)
          THEN Some(Components(desc.comp, compSpec, None, img.comp, None))
          ELSE None,
       !.information =
          IF IsDef(desc.info) THEN Some(Information(desc.info, None, None)) ELSE None,
       !.specifications = spec,
       !.media = img.media,
       !.variants = variants]

NormRecords ==
    { MkRaw(h, cs, sp, d, im, vs) :
        h \in HeadChoices, cs \in CompSpecChoices, sp \in SpecChoices,
        d \in DescChoices, im \in ImageChoices, vs \in VariantListChoices }

---------------------------------------------------------------------------
(* State before anything is loaded (lines 469-470) *)

Array(items) == [type |-> "array", items |-> items]
Metadata(scrapedAt, totalProducts, source, categories, error) ==
    [scrapedAt |-> scrapedAt, totalProducts |-> totalProducts, source |-> source,
     categories |-> categories, error |-> error]

\* let productsData = []; let productsMetadata = {}
EmptyProductsData == Array(<<>>)
EmptyMetadata == Metadata(None, None, None, None, None)

MissingFile == [state |-> "missing", json |-> None]
NoCall == [op |-> "none"]

---------------------------------------------------------------------------
(* transformProduct as a pure function: one call on one raw record *)

InitNorm ==
    /\ pc = "pure"
    /\ primary = MissingFile
    /\ secondary = MissingFile
    /\ productsData = EmptyProductsData
    /\ productsMetadata = EmptyMetadata
    /\ call \in {[op |-> "transformProduct", product |-> r] : r \in NormRecords}
    /\ ret = Pending

Normalize ==
    /\ pc = "pure"
    /\ ret.status = "pending"
    /\ ret' = transformProduct(call.product)
    /\ UNCHANGED <<pc, primary, secondary, productsData, productsMetadata, call>>

NextNorm == Normalize

SpecNorm == InitNorm /\ [][NextNorm]_vars

\* a transformProduct call on a record with at least one variant has returned
NormReturned ==
    /\ pc = "pure"
    /\ ret.status = "returned"

HasVariants(product) == IsDef(product.variants) /\ Len(Val(product.variants)) > 0

\* the raw variant the claim calls the default one: the first one flagged
\* isDefault, or the one at position 0 when none is flagged
FlaggedPositions(product) ==
    {i \in 1..Len(Val(product.variants)) : TruthyBool(Val(product.variants)[i].isDefault)}
DefaultPosition(product) ==
    IF FlaggedPositions(product) = {} THEN 1
    ELSE CHOOSE i \in FlaggedPositions(product) :
            \A j \in FlaggedPositions(product) : i <= j

C4_NeverRaises ==
    (pc = "pure" /\ call.op = "transformProduct") => ret.status # "threw"

\* the fields the schema declares non-null (lines 556-605), and warranty
RequiredDefined(p) ==
    /\ IsDef(p.id) /\ IsDef(p.name) /\ IsDef(p.path) /\ IsDef(p.category)
    /\ IsDef(p.description.html) /\ IsDef(p.description.plainText)
    /\ IsDef(p.specifications.wattage) /\ IsDef(p.specifications.dimensions)
    /\ IsDef(p.specifications.weight) /\ IsDef(p.specifications.mounting)
    /\ IsDef(p.specifications.efficiency)
    /\ IsDef(p.features.html) /\ IsDef(p.features.plainText)
    /\ \A i \in 1..Len(p.images) :
          IsDef(p.images[i].url) /\ IsDef(p.images[i].altText)
    /\ \A i \in 1..Len(p.variants) :
          /\ IsDef(p.variants[i].id) /\ IsDef(p.variants[i].name)
          /\ IsDef(p.variants[i].sku) /\ IsDef(p.variants[i].price)
          /\ IsDef(p.variants[i].currency) /\ IsDef(p.variants[i].stock)
          /\ IsDef(p.variants[i].isDefault)
    /\ IsDef(p.price) /\ IsDef(p.currency) /\ IsDef(p.warranty)

\* C5 as claimed: no required field of a returned product is undefined or
\* null.
C5_NoFieldUndefined ==
    NormReturned => RequiredDefined(ret.value)

---------------------------------------------------------------------------
(* loadProductData (lines 476-552) *)

\* A data file: missing (readFileSync throws), unparsable (JSON.parse
\* throws), or parsed to a JSON value.
UnparsableFile == [state |-> "unparsable", json |-> None]
ParsedFile(json) == [state |-> "parsed", json |-> Some(json)]

\* JSON values: null, a number, an object with or without the properties
\* products and metadata, an array of records
JNull == [type |-> "null", products |-> None, metadata |-> None, items |-> <<>>]
JNumber == [type |-> "number", products |-> None, metadata |-> None, items |-> <<>>]
JObject(products, metadata) ==
    [type |-> "object", products |-> products, metadata |-> metadata, items |-> <<>>]
JArray(items) ==
    [type |-> "array", products |-> None, metadata |-> None, items |-> items]

\* a products property that is an object keyed by id instead of an array:
\* truthy, and without a length
KeyedObject == [type |-> "object", items |-> <<>>]

\* productsData is sample data, with the metadata of lines 495-499, 526-530
\* (no error) and 545-550 (the caught error's message)
SampleLoaded(error) ==
    [data |-> Array(generateSampleProducts),
     meta |-> Metadata(Some(Now), Some(Len(generateSampleProducts)),
                       Some("sample_data"), None, error)]

\* ChosenFile, were a primary file that does not parse to make the loader
\* read the secondary file
ChosenFileCascade(p, s) ==
    IF p.state = "parsed" THEN Some(p)
    ELSE IF s.state # "missing" THEN Some(s)
    ELSE None

\* a loader that reads the primary file only
ChosenFilePrimaryOnly(p, s) ==
    IF p.state # "missing" THEN Some(p) ELSE None

\* lines 484-502: the file whose text becomes rawData; none when both
\* readFileSync calls throw
ChosenFile(p, s) ==
    IF p.state # "missing" THEN Some(p)
    ELSE IF s.state # "missing" THEN Some(s)
    ELSE None

\* lines 507-531: the three shapes of parsedData
ByShape(parsedData) ==
    IF IsDef(parsedData.products) /\ IsDef(parsedData.metadata)
    THEN [data |-> Val(parsedData.products), meta |-> Val(parsedData.metadata)]
    ELSE IF parsedData.type = "array"
    THEN [data |-> Array(parsedData.items),
          meta |-> Metadata(Some(Now), Some(Len(parsedData.items)),
                            Some("legacy_data"), None, None)]
    ELSE SampleLoaded(None)

\* lines 534-537: productsData.length === 0 replaces the records only
ValidateLength(loaded) ==
    IF loaded.data.type = "array" /\ Len(loaded.data.items) = 0
    THEN [loaded EXCEPT !.data = Array(generateSampleProducts)]
    ELSE loaded

\* the values loadProductData leaves in productsData and productsMetadata
LoadOutcome(p, s) ==
    LET chosen == ChosenFile(p, s)
    IN  IF ~IsDef(chosen) THEN SampleLoaded(None)
        ELSE IF Val(chosen).state = "unparsable"
        THEN SampleLoaded(Some("Unexpected token in JSON"))
        ELSE IF Val(Val(chosen).json).type = "null"
        THEN SampleLoaded(Some("Cannot read properties of null (reading 'products')"))
        ELSE ValidateLength(ByShape(Val(Val(chosen).json)))

\* the records a data file may hold
FileRecords ==
    { MkRaw([id |-> Some("ir-600"), name |-> Some("Infrared Panel 600"),
             path |-> Some("/heaters/ir-600"), category |-> Some("Panel Heaters")],
            Some([chunks |-> Some(<<Chunk(Some(600), Some("800mm x 600mm"), Some(65),
                                          None, None, None)>>)]),
            None,
            [comp |-> Some([content |-> Some(Content(Some("<p>Radiant heat</p>"),
                                                     Some("Radiant heat")))]),
             info |-> None],
            [comp |-> None, media |-> None],
            Some(<<Variant(Some("White"), Some("SKU-W"), Some(29999),
                           Some(<<[currency |-> Some("GBP")]>>), None, Some(15),
                           Some(TRUE))>>)),
      MkRaw([id |-> Some("bar-900"), name |-> Some("Bar Heater 900"),
             path |-> Some("/heaters/bar-900"), category |-> Some("Bar Heaters")],
            None,
            Some(Specifications(Some(Chunk(Some(900), None, Some(85), None, None, None)),
                                None, None)),
            [comp |-> None, info |-> Some("<p>Warm <b>glow</b></p>")],
            [comp |-> None, media |-> None],
            Some(<<Variant(Some("Black"), Some("SKU-B"), Some(44999),
                           None, Some("EUR"), None, None)>>)) }

FileLists == SeqsOf(FileRecords, 0, MaxCatalog)

FileMetadata ==
    Metadata(Some("2025-06-01T10:00:00.000Z"), Some(7), Some("enhanced_scraper"),
             Some(<<"Panel Heaters", "Bar Heaters">>), None)

Files ==
    {MissingFile, UnparsableFile, ParsedFile(JNull), ParsedFile(JNumber),
     ParsedFile(JObject(None, None)),
     ParsedFile(JObject(Some(KeyedObject), Some(FileMetadata)))}
    \cup {ParsedFile(JObject(Some(Array(l)), Some(FileMetadata))) : l \in FileLists}
    \cup {ParsedFile(JObject(Some(Array(l)), Some(EmptyMetadata))) : l \in FileLists}
    \cup {ParsedFile(JObject(Some(Array(l)), None)) : l \in FileLists}
    \cup {ParsedFile(JArray(l)) : l \in FileLists}

InitLoad ==
    /\ pc = "start"
    /\ primary \in Files
    /\ secondary \in Files
    /\ productsData = EmptyProductsData
    /\ productsMetadata = EmptyMetadata
    /\ call = NoCall
    /\ ret = Pending

LoadProductData ==
    /\ pc = "start"
    /\ pc' = "loaded"
    /\ productsData' = LoadOutcome(primary, secondary).data
    /\ productsMetadata' = LoadOutcome(primary, secondary).meta
    /\ call' = [op |-> "loadProductData"]
    /\ ret' = Returned(None)
    /\ UNCHANGED <<primary, secondary>>

NextLoad == LoadProductData

SpecLoad == InitLoad /\ [][NextLoad]_vars

\* the record list a file holds, when it holds one: in the products of an
\* envelope that also has metadata, or as a legacy array
HoldsList(f) ==
    /\ f.state = "parsed"
    /\ \/ Val(f.json).type = "array"
       \/ /\ Val(f.json).type = "object"
          /\ IsDef(Val(f.json).products) /\ IsDef(Val(f.json).metadata)
          /\ Val(Val(f.json).products).type = "array"
RecordsOf(f) ==
    IF Val(f.json).type = "array" THEN Val(f.json).items
    ELSE Val(Val(f.json).products).items

\* a file that is present and valid: it holds a non-empty record list
ValidFile(f) == HoldsList(f) /\ Len(RecordsOf(f)) > 0

\* a file that is missing, does not parse, has an invalid shape (neither an
\* envelope with products and metadata nor an array), or holds no records
FailedFile(f) ==
    \/ f.state \in {"missing", "unparsable"}
    \/ /\ f.state = "parsed"
       /\ \/ Val(f.json).type \in {"null", "number"}
          \/ /\ Val(f.json).type = "object"
             /\ ~(IsDef(Val(f.json).products) /\ IsDef(Val(f.json).metadata))
          \/ HoldsList(f) /\ Len(RecordsOf(f)) = 0

C3_NonEmptyList ==
    pc = "loaded" =>
        /\ ret.status = "returned"
        /\ productsData.type = "array"
        /\ Len(productsData.items) > 0

---------------------------------------------------------------------------
(* The resolvers (lines 636-721), as functions of productsData *)

Min(a, b) == IF a <= b THEN a ELSE b
Max(a, b) == IF a >= b THEN a ELSE b

\* Array.prototype.slice(0, end): a negative end counts from the back
Slice(s, end) ==
    SubSeq(s, 1, IF end < 0 THEN Max(Len(s) + end, 0) ELSE Min(end, Len(s)))

\* list.map(transformProduct): throws when one call throws
MapTransform(list) ==
    IF \E i \in 1..Len(list) : TransformThrows(list[i]) THEN Threw
    ELSE Returned([i \in 1..Len(list) |-> TransformValue(list[i])])

\* const price = p.variants[0]?.price || 0 (lines 650, 698); p.variants[0]
\* throws when the record has no variants list
PriceThrows(p) == ~IsDef(p.variants)
RawPrice(p) == Val(OrNum(Chain(FirstVariant(p), "price"), Some(0)))

\* const wattage = p.components?.specifications?.chunks[0]?.wattage
\*                 || p.specifications?.basic?.wattage || 0 (lines 658, 706)
WattageThrows(p) == ChunksMissing(p)
\* a filter that reads the wattage of the component family only
RawWattageOfChunk(p) ==
    Val(OrNum(Chain(FirstChunk(p), "wattage"), Some(0)))
RawWattage(p) ==
    Val(OrNum(Chain(FirstChunk(p), "wattage"),
              OrNum(Chain(Chain(p.specifications, "basic"), "wattage"), Some(0))))

\* a list being filtered: the callback threw on some element, or the
\* elements kept
Kept(items) == [threw |-> FALSE, items |-> items]
FilterThrew == [threw |-> TRUE, items |-> <<>>]

\* the filter argument of products
Filter(category, minPrice, maxPrice, minWattage, maxWattage) ==
    [category |-> category, minPrice |-> minPrice, maxPrice |-> maxPrice,
     minWattage |-> minWattage, maxWattage |-> maxWattage]

\* lines 642-646: if (filter.category) keep p with
\* p.category.toLowerCase().includes(filter.category.toLowerCase())
CategoryStage(items, f) ==
    IF ~TruthyStr(f.category) THEN Kept(items)
    ELSE IF \E i \in 1..Len(items) : ~IsDef(items[i].category) THEN FilterThrew
    ELSE Kept(SelectSeq(items, LAMBDA p :
                 includes(toLowerCase(Val(p.category)),
                          toLowerCase(Val(f.category)))))

\* !filter.minPrice || price >= filter.minPrice, and the like
LowerBoundHolds(bound, x) == ~TruthyNum(bound) \/ x >= Val(bound)
UpperBoundHolds(bound, x) == ~TruthyNum(bound) \/ x <= Val(bound)

\* lines 648-654: if (filter.minPrice || filter.maxPrice) ...
PriceStage(items, f) ==
    IF ~(TruthyNum(f.minPrice) \/ TruthyNum(f.maxPrice)) THEN Kept(items)
    ELSE IF \E i \in 1..Len(items) : PriceThrows(items[i]) THEN FilterThrew
    ELSE Kept(SelectSeq(items, LAMBDA p :
                 /\ LowerBoundHolds(f.minPrice, RawPrice(p))
                 /\ UpperBoundHolds(f.maxPrice, RawPrice(p))))

\* lines 656-662: if (filter.minWattage || filter.maxWattage) ...
WattageStage(items, f) ==
    IF ~(TruthyNum(f.minWattage) \/ TruthyNum(f.maxWattage)) THEN Kept(items)
    ELSE IF \E i \in 1..Len(items) : WattageThrows(items[i]) THEN FilterThrew
    ELSE Kept(SelectSeq(items, LAMBDA p :
                 /\ LowerBoundHolds(f.minWattage, RawWattage(p))
                 /\ UpperBoundHolds(f.maxWattage, RawWattage(p))))

\* lines 641-663: the three stages, each on what the one before kept
FilterStages(items, f) ==
    LET byCategory == CategoryStage(items, f)
        byPrice == IF byCategory.threw THEN FilterThrew
                   ELSE PriceStage(byCategory.items, f)
    IN  IF byPrice.threw THEN FilterThrew ELSE WattageStage(byPrice.items, f)

\* products(first, filter), lines 638-666; [...productsData] throws when
\* productsData is not iterable
products(data, first, filter) ==
    IF data.type # "array" THEN Threw
    ELSE LET filtered == IF IsDef(filter) THEN FilterStages(data.items, Val(filter))
                         ELSE Kept(data.items)
         IN  IF filtered.threw THEN Threw
             ELSE MapTransform(Slice(filtered.items, first))

\* the callback of searchProducts (lines 688-691): it throws on a record
\* without a name, or without a category once name and description missed
SearchDescription(p) ==
    Val(OrStr(Chain(Chain(Chain(p.components, "description"), "content"), "plainText"),
              OrStr(Chain(p.information, "description"), Some(""))))
SearchNameHit(p, searchTerm) ==
    IsDef(p.name) /\ includes(toLowerCase(Val(p.name)), searchTerm)
SearchDescriptionHit(p, searchTerm) ==
    includes(toLowerCase(SearchDescription(p)), searchTerm)
SearchThrows(p, searchTerm) ==
    \/ ~IsDef(p.name)
    \/ /\ ~SearchNameHit(p, searchTerm)
       /\ ~SearchDescriptionHit(p, searchTerm)
       /\ ~IsDef(p.category)
SearchHit(p, searchTerm) ==
    \/ SearchNameHit(p, searchTerm)
    \/ SearchDescriptionHit(p, searchTerm)
    \/ IsDef(p.category) /\ includes(toLowerCase(Val(p.category)), searchTerm)

\* searchProducts(query), lines 685-694
searchProducts(data, query) ==
    LET searchTerm == toLowerCase(query)
    IN  IF data.type # "array" THEN Threw
        ELSE IF \E i \in 1..Len(data.items) : SearchThrows(data.items[i], searchTerm)
        THEN Threw
        ELSE MapTransform(SelectSeq(data.items, LAMBDA p : SearchHit(p, searchTerm)))

\* a price range resolver whose upper bound is exclusive
productsByPriceBelow(data, minPrice, maxPrice) ==
    IF data.type # "array" THEN Threw
    ELSE IF \E i \in 1..Len(data.items) : PriceThrows(data.items[i]) THEN Threw
    ELSE MapTransform(SelectSeq(data.items, LAMBDA p :
             RawPrice(p) >= minPrice /\ RawPrice(p) < maxPrice))

\* productsByPriceRange(minPrice, maxPrice), lines 696-702
productsByPriceRange(data, minPrice, maxPrice) ==
    IF data.type # "array" THEN Threw
    ELSE IF \E i \in 1..Len(data.items) : PriceThrows(data.items[i]) THEN Threw
    ELSE MapTransform(SelectSeq(data.items, LAMBDA p :
             RawPrice(p) >= minPrice /\ RawPrice(p) <= maxPrice))

\* productsByWattage(minWattage, maxWattage), lines 704-710
productsByWattage(data, minWattage, maxWattage) ==
    IF data.type # "array" THEN Threw
    ELSE IF \E i \in 1..Len(data.items) : WattageThrows(data.items[i]) THEN Threw
    ELSE MapTransform(SelectSeq(data.items, LAMBDA p :
             RawWattage(p) >= minWattage /\ RawWattage(p) <= maxWattage))

\* a product resolver that finds the record whatever the case of its id
productIgnoringCase(data, id) ==
    LET hits == IF data.type = "array"
                THEN SelectSeq(data.items, LAMBDA p :
                        IsDef(p.id) /\ toLowerCase(Val(p.id)) = toLowerCase(id))
                ELSE <<>>
    IN  IF data.type # "array" THEN Threw
        ELSE IF hits = <<>> THEN Returned(None)
        ELSE IF TransformThrows(hits[1]) THEN Threw
        ELSE Returned(Some(TransformValue(hits[1])))

\* product(id), lines 668-671: productsData.find(p => p.id === id) is the
\* first record with that id; the result is null (None) when there is none
product(data, id) ==
    LET hits == IF data.type = "array"
                THEN SelectSeq(data.items, LAMBDA p : p.id = Some(id))
                ELSE <<>>
    IN  IF data.type # "array" THEN Threw
        ELSE IF hits = <<>> THEN Returned(None)
        ELSE IF TransformThrows(hits[1]) THEN Threw
        ELSE Returned(Some(TransformValue(hits[1])))

\* the characters of code units 32..126 in ascending order, the grave
\* accent (96) left out: Array.prototype.sort() without a comparator orders
\* strings by code units
CodeUnits ==
    " !\"#$%&'()*+,-./0123456789:;<=>?@ABCDEFGHIJKLMNOPQRSTUVWXYZ[\\]^_abcdefghijklmnopqrstuvwxyz{|}~"
\* the rank of a character in that order
CodeUnit(c) == CHOOSE i \in 1..Len(CodeUnits) : CharAt(CodeUnits, i) = c

\* a < b as the default sort compares two strings
RECURSIVE StringBefore(_, _)
StringBefore(a, b) ==
    IF b = "" THEN FALSE
    ELSE IF a = "" THEN TRUE
    ELSE IF CharAt(a, 1) # CharAt(b, 1)
         THEN CodeUnit(CharAt(a, 1)) < CodeUnit(CharAt(b, 1))
    ELSE StringBefore(SubSeq(a, 2, Len(a)), SubSeq(b, 2, Len(b)))

\* the default sort order on array elements: undefined goes last
SortsBefore(x, y) ==
    IF ~IsDef(x) THEN FALSE
    ELSE IF ~IsDef(y) THEN TRUE
    ELSE StringBefore(Val(x), Val(y))

\* Array.prototype.sort() on a list of optional strings
RECURSIVE Sort(_)
Sort(list) ==
    IF list = <<>> THEN <<>>
    ELSE LET rest == Sort(Tail(list))
             smaller == SelectSeq(rest, LAMBDA y : ~SortsBefore(Head(list), y))
             larger == SelectSeq(rest, LAMBDA y : SortsBefore(Head(list), y))
         IN  smaller \o <<Head(list)>> \o larger

\* [...new Set(list)]: the distinct elements in the order of their first
\* occurrence
RECURSIVE SetOf(_)
SetOf(list) ==
    IF list = <<>> THEN <<>>
    ELSE LET front == SetOf(SubSeq(list, 1, Len(list) - 1))
             last == list[Len(list)]
         IN  IF \E i \in 1..Len(front) : front[i] = last THEN front
             ELSE Append(front, last)

\* a categories resolver that leaves the Set out
categoriesOfEveryRecord(data) ==
    IF data.type # "array" THEN Threw
    ELSE Returned(Sort([i \in 1..Len(data.items) |-> data.items[i].category]))

\* categories(), lines 673-676
categories(data) ==
    IF data.type # "array" THEN Threw
    ELSE Returned(Sort(SetOf([i \in 1..Len(data.items) |-> data.items[i].category])))

\* a productsByCategory resolver that matches as the category filter of
\* products does, by containment
productsByCategoryContaining(data, category) ==
    IF data.type # "array" THEN Threw
    ELSE IF \E i \in 1..Len(data.items) : ~IsDef(data.items[i].category) THEN Threw
    ELSE MapTransform(SelectSeq(data.items, LAMBDA p :
             includes(toLowerCase(Val(p.category)), toLowerCase(category))))

\* productsByCategory(category), lines 678-683; p.category.toLowerCase()
\* throws on a record without a category
productsByCategory(data, category) ==
    IF data.type # "array" THEN Threw
    ELSE IF \E i \in 1..Len(data.items) : ~IsDef(data.items[i].category) THEN Threw
    ELSE MapTransform(SelectSeq(data.items, LAMBDA p :
             toLowerCase(Val(p.category)) = toLowerCase(category)))

\* a metadata resolver that passes on what the loaded metadata carries
metadataAsLoaded(data, meta) ==
    IF data.type # "array" THEN Threw
    ELSE Returned([scrapedAt |-> OrStr(meta.scrapedAt, Some(Now)),
                   totalProducts |-> meta.totalProducts,
                   source |-> OrStr(meta.source, Some("unknown")),
                   categories |-> IF IsDef(meta.categories) THEN Val(meta.categories)
                                  ELSE <<>>])

\* metadata(), lines 712-717; productsData.map throws when productsData is
\* not an array
metadata(data, meta) ==
    IF data.type # "array" THEN Threw
    ELSE Returned([scrapedAt |-> OrStr(meta.scrapedAt, Some(Now)),
                   totalProducts |-> Some(Len(data.items)),
                   source |-> OrStr(meta.source, Some("unknown")),
                   categories |-> Sort(SetOf([i \in 1..Len(data.items) |->
                                                data.items[i].category]))])

---------------------------------------------------------------------------
(* startServer (lines 961-1319): loadProductData statement by statement,
   then the Apollo server, then httpServer.listen *)

\* the values the branch taken assigns, before lines 534-537: the sample
\* data of lines 494-499 (no file), of lines 546-552 (JSON.parse or the
\* test of parsedData.products threw), or the shape's of lines 507-531
BranchOutcome(p, s) ==
    LET chosen == ChosenFile(p, s)
    IN  IF ~IsDef(chosen) THEN SampleLoaded(None)
        ELSE IF Val(chosen).state = "unparsable"
        THEN SampleLoaded(Some("Unexpected token in JSON"))
        ELSE IF Val(Val(chosen).json).type = "null"
        THEN SampleLoaded(Some("Cannot read properties of null (reading 'products')"))
        ELSE ByShape(Val(Val(chosen).json))

\* health (line 719); the rocket sign that starts the string is left out
health(data) ==
    "Norko GraphQL API is running! "
    \o (IF data.type = "array" THEN IntToStr(Len(data.items)) ELSE "undefined")
    \o " products loaded."

InitServer ==
    /\ pc = "startServer"
    /\ primary \in Files
    /\ secondary \in Files
    /\ productsData = EmptyProductsData
    /\ productsMetadata = EmptyMetadata
    /\ call = NoCall
    /\ ret = Pending

\* productsData = ... (lines 494, 509, 514, 522, 546)
AssignProductsData ==
    /\ pc = "startServer"
    /\ pc' = "data assigned"
    /\ productsData' = BranchOutcome(primary, secondary).data
    /\ call' = [op |-> "loadProductData"]
    /\ UNCHANGED <<primary, secondary, productsMetadata, ret>>

\* productsMetadata = ... (lines 495, 510, 515, 523, 547)
AssignProductsMetadata ==
    /\ pc = "data assigned"
    /\ pc' = "metadata assigned"
    /\ productsMetadata' = BranchOutcome(primary, secondary).meta
    /\ UNCHANGED <<primary, secondary, productsData, call, ret>>

\* lines 534-537, and the return to startServer; the paths that do not pass
\* there (lines 500 and 543-552) hold the sample list, which is not empty
ValidateProductsData ==
    /\ pc = "metadata assigned"
    /\ pc' = "loaded"
    /\ productsData' = ValidateLength([data |-> productsData,
                                       meta |-> productsMetadata]).data
    /\ ret' = Returned(None)
    /\ UNCHANGED <<primary, secondary, productsMetadata, call>>

\* lines 965-1014: new ApolloServer, await server.start(), app.use
StartApollo ==
    /\ pc = "loaded"
    /\ pc' = "started"
    /\ call' = NoCall
    /\ ret' = Pending
    /\ UNCHANGED <<primary, secondary, productsData, productsMetadata>>

\* server.start() rejects: startServer().catch exits (lines 1316-1319)
StartRejected ==
    /\ pc = "loaded"
    /\ pc' = "exited"
    /\ call' = NoCall
    /\ ret' = Threw
    /\ UNCHANGED <<primary, secondary, productsData, productsMetadata>>

\* a server that may listen at any point of startServer
ListenAnytime ==
    pc \in {"startServer", "data assigned", "metadata assigned", "loaded", "started"}

\* httpServer.listen is the last statement of startServer
ListenReady == pc = "started"

\* httpServer.listen (line 1307): requests are accepted from here on
Listen ==
    /\ ListenReady
    /\ pc' = "listening"
    /\ UNCHANGED <<primary, secondary, productsData, productsMetadata, call, ret>>

\* a health query answered by the listening server
Health ==
    /\ pc = "listening"
    /\ call' = [op |-> "health"]
    /\ ret' = Returned(health(productsData))
    /\ UNCHANGED <<pc, primary, secondary, productsData, productsMetadata>>

\* a metadata query answered by the listening server
MetadataOfListening ==
    /\ pc = "listening"
    /\ call' = [op |-> "metadata"]
    /\ ret' = metadata(productsData, productsMetadata)
    /\ UNCHANGED <<pc, primary, secondary, productsData, productsMetadata>>

NextServer ==
    \/ AssignProductsData
    \/ AssignProductsMetadata
    \/ ValidateProductsData
    \/ StartApollo
    \/ StartRejected
    \/ Listen
    \/ Health
    \/ MetadataOfListening

SpecServer == InitServer /\ [][NextServer]_vars

\* C20: whenever the HTTP server is listening, loadProductData has returned
\* and productsData and productsMetadata hold the values it leaves them
\* with; a query is answered from those values, never from the empty
\* initial list or from a list assigned but not yet validated.
C20_LoadedBeforeListening ==
    pc = "listening" =>
        /\ productsData = LoadOutcome(primary, secondary).data
        /\ productsMetadata = LoadOutcome(primary, secondary).meta
        /\ productsData # EmptyProductsData
        /\ call.op = "health" =>
              ret = Returned(health(LoadOutcome(primary, secondary).data))

\* C20's case: the file read holds an empty record list, which
\* loadProductData replaced by the sample records before the server listened
\* and answered a health query
C20_Witness ==
    /\ pc = "listening"
    /\ call.op = "health"
    /\ BranchOutcome(primary, secondary).data = EmptyProductsData
    /\ productsData = Array(generateSampleProducts)

---------------------------------------------------------------------------
(* Serving: the resolvers called on a loaded catalog *)

\* The records of the catalogs queried: the two sample records, the two
\* file records, and
\*   - a record whose chunks[0] has no wattage while specifications.basic
\*     has one, and which has no description;
\*   - a record with an empty variants list;
\*   - a record whose components.specifications has no chunks;
\*   - a record without a category.
CatRecords ==
    { generateSampleProducts[1], generateSampleProducts[2] }
    \cup FileRecords
    \cup { MkRaw([id |-> Some("mix-900"), name |-> Some("Mixed Heater"),
                  path |-> Some("/heaters/mix-900"), category |-> Some("bar heaters")],
                 Some([chunks |-> Some(<<Chunk(None, Some("1200mm x 600mm"), None,
                                               None, None, None)>>)]),
                 Some(Specifications(Some(Chunk(Some(900), None, Some(85), None, None,
                                                None)), None, None)),
                 [comp |-> None, info |-> None],
                 [comp |-> None, media |-> None],
                 Some(<<Variant(Some("Steel"), Some("SKU-S"), Some(19999),
                                None, None, Some(4), None)>>)),
           MkRaw([id |-> Some("acc-1"), name |-> Some("Wall Bracket"),
                  path |-> Some("/accessories/acc-1"), category |-> Some("Accessories")],
                 None, None,
                 [comp |-> None, info |-> None],
                 [comp |-> None, media |-> None],
                 Some(<<>>)),
           MkRaw([id |-> Some("odd-1"), name |-> Some("Patio Heater"),
                  path |-> Some("/heaters/odd-1"), category |-> Some("Patio Heaters")],
                 Some([chunks |-> None]), None,
                 [comp |-> None, info |-> None],
                 [comp |-> None, media |-> None],
                 Some(<<Variant(Some("Bronze"), Some("SKU-Z"), Some(59999),
                                None, None, Some(2), Some(TRUE))>>)),
           MkRaw([id |-> Some("loose-1"), name |-> Some("Loose Heater"),
                  path |-> Some("/heaters/loose-1"), category |-> None],
                 None, None,
                 [comp |-> None, info |-> None],
                 [comp |-> None, media |-> None],
                 Some(<<Variant(Some("Grey"), Some("SKU-G"), Some(30000),
                                None, None, Some(1), None)>>)) }

Catalogs == SeqsOf(CatRecords, 1, MaxCatalog)

\* the arguments the resolvers are called with
FirstChoices == {-1, 0, 1, 20}
PriceChoices == {0, 29999, 30000, 44998, 44999}
WattageChoices == {0, 500, 600, 1000}
CategoryChoices == {"", "panel", "HEATERS"}
QueryChoices == {"", "panel", "INFRARED", "warm glow", "p>"}
IdChoices == {"ir-600", "IR-600", "odd-1", "acc-1", "sample-1"}
ByCategoryChoices == {"", "panel", "PANEL HEATERS", "Bar Heaters"}

OptionOf(S) == {None} \cup {Some(x) : x \in S}

FilterChoices ==
    {None}
    \cup {Some(Filter(c, None, None, None, None)) : c \in OptionOf(CategoryChoices)}
    \cup {Some(Filter(None, lo, hi, None, None)) :
             lo \in OptionOf(PriceChoices), hi \in OptionOf(PriceChoices)}
    \cup {Some(Filter(None, None, None, lo, hi)) :
             lo \in OptionOf(WattageChoices), hi \in OptionOf(WattageChoices)}
    \cup {Some(Filter(Some("heaters"), lo, None, None, hi)) :
             lo \in OptionOf({0, 30000}), hi \in OptionOf({0, 600})}

\* the server after loadProductData read a legacy array from the primary
\* file
InitQuery ==
    /\ pc = "serving"
    /\ primary \in {ParsedFile(JArray(c)) : c \in Catalogs}
    /\ secondary = MissingFile
    /\ productsData = LoadOutcome(primary, secondary).data
    /\ productsMetadata = LoadOutcome(primary, secondary).meta
    /\ call = NoCall
    /\ ret = Pending

Products ==
    /\ pc = "serving"
    /\ call.op = "none"
    /\ \E first \in FirstChoices, filter \in FilterChoices :
          /\ call' = [op |-> "products", first |-> first, filter |-> filter]
          /\ ret' = products(productsData, first, filter)
    /\ UNCHANGED <<pc, primary, secondary, productsData, productsMetadata>>

SearchProducts ==
    /\ pc = "serving"
    /\ call.op = "none"
    /\ \E query \in QueryChoices :
          /\ call' = [op |-> "searchProducts", query |-> query]
          /\ ret' = searchProducts(productsData, query)
    /\ UNCHANGED <<pc, primary, secondary, productsData, productsMetadata>>

ProductsByPriceRange ==
    /\ pc = "serving"
    /\ call.op = "none"
    /\ \E minPrice \in PriceChoices, maxPrice \in PriceChoices :
          /\ call' = [op |-> "productsByPriceRange",
                      min |-> minPrice, max |-> maxPrice]
          /\ ret' = productsByPriceRange(productsData, minPrice, maxPrice)
    /\ UNCHANGED <<pc, primary, secondary, productsData, productsMetadata>>

ProductsByWattage ==
    /\ pc = "serving"
    /\ call.op = "none"
    /\ \E minWattage \in WattageChoices, maxWattage \in WattageChoices :
          /\ call' = [op |-> "productsByWattage",
                      min |-> minWattage, max |-> maxWattage]
          /\ ret' = productsByWattage(productsData, minWattage, maxWattage)
    /\ UNCHANGED <<pc, primary, secondary, productsData, productsMetadata>>

Product ==
    /\ pc = "serving"
    /\ call.op = "none"
    /\ \E id \in IdChoices :
          /\ call' = [op |-> "product", id |-> id]
          /\ ret' = product(productsData, id)
    /\ UNCHANGED <<pc, primary, secondary, productsData, productsMetadata>>

\* the records ordered by category, as a sort of productsData itself
\* would leave them
RECURSIVE SortedByCategory(_)
SortedByCategory(list) ==
    IF list = <<>> THEN <<>>
    ELSE LET rest == SortedByCategory(Tail(list))
             smaller == SelectSeq(rest, LAMBDA y :
                            ~SortsBefore(Head(list).category, y.category))
             larger == SelectSeq(rest, LAMBDA y :
                            SortsBefore(Head(list).category, y.category))
         IN  smaller \o <<Head(list)>> \o larger

\* a categories resolver that sorts productsData in place
CategoriesSortingCatalog ==
    /\ pc = "serving"
    /\ call.op = "none"
    /\ call' = [op |-> "categories"]
    /\ ret' = categories(productsData)
    /\ productsData' = [productsData EXCEPT !.items = SortedByCategory(@)]
    /\ UNCHANGED <<pc, primary, secondary, productsMetadata>>

Categories ==
    /\ pc = "serving"
    /\ call.op = "none"
    /\ call' = [op |-> "categories"]
    /\ ret' = categories(productsData)
    /\ UNCHANGED <<pc, primary, secondary, productsData, productsMetadata>>

ProductsByCategory ==
    /\ pc = "serving"
    /\ call.op = "none"
    /\ \E category \in ByCategoryChoices :
          /\ call' = [op |-> "productsByCategory", category |-> category]
          /\ ret' = productsByCategory(productsData, category)
    /\ UNCHANGED <<pc, primary, secondary, productsData, productsMetadata>>

MetadataQuery ==
    /\ pc = "serving"
    /\ call.op = "none"
    /\ call' = [op |-> "metadata"]
    /\ ret' = metadata(productsData, productsMetadata)
    /\ UNCHANGED <<pc, primary, secondary, productsData, productsMetadata>>

\* the response is sent: the server waits for the next request
Respond ==
    /\ pc = "serving"
    /\ call.op # "none"
    /\ call' = NoCall
    /\ ret' = Pending
    /\ UNCHANGED <<pc, primary, secondary, productsData, productsMetadata>>

NextQuery ==
    \/ Respond
    \/ Products
    \/ SearchProducts
    \/ ProductsByPriceRange
    \/ ProductsByWattage
    \/ Product
    \/ Categories
    \/ ProductsByCategory
    \/ MetadataQuery

SpecQuery == InitQuery /\ [][NextQuery]_vars

---------------------------------------------------------------------------
(* The query claims *)

Called(op) == pc = "serving" /\ call.op = op
CalledAndReturned(op) == Called(op) /\ ret.status = "returned"

\* the products of the catalog, in ingestion order, for which transformProduct
\* returns a product that satisfies Test
NormalizedWhere(Test(_)) ==
    LET list == SelectSeq(productsData.items, LAMBDA r :
                    ~TransformThrows(r) /\ Test(TransformValue(r)))
    IN  [i \in 1..Len(list) |-> TransformValue(list[i])]

\* C6 as claimed: each product that products returns satisfies every range
\* bound the filter supplies, a bound of 0 included.
C6_SuppliedBoundsEnforced ==
    (CalledAndReturned("products") /\ IsDef(call.filter)) =>
        LET f == Val(call.filter)
        IN  \A i \in 1..Len(ret.value) :
               LET price == Val(ret.value[i].price)
                   wattage == Val(ret.value[i].specifications.wattage)
               IN  /\ IsDef(f.minPrice) => price >= Val(f.minPrice)
                   /\ IsDef(f.maxPrice) => price <= Val(f.maxPrice)
                   /\ IsDef(f.minWattage) => wattage >= Val(f.minWattage)
                   /\ IsDef(f.maxWattage) => wattage <= Val(f.maxWattage)

\* q, lower-cased, is a substring of the lower-cased string, when there is one
FieldHas(o, q) == IsDef(o) /\ includes(toLowerCase(Val(o)), toLowerCase(q))

\* C7 as claimed: searchProducts returns, in ingestion order, exactly the
\* products whose name, description.plainText or category (of the product
\* returned) contains the query, case ignored.
C7_SearchOnCanonicalFields ==
    CalledAndReturned("searchProducts") =>
        ret.value = NormalizedWhere(LAMBDA p :
                        \/ FieldHas(p.name, call.query)
                        \/ FieldHas(p.description.plainText, call.query)
                        \/ FieldHas(p.category, call.query))

\* C8 as claimed: productsByWattage returns exactly the products whose
\* specifications.wattage, as returned, lies in min..max.
C8_WattageOfReturnedProduct ==
    CalledAndReturned("productsByWattage") =>
        ret.value = NormalizedWhere(LAMBDA p :
                        /\ Val(p.specifications.wattage) >= call.min
                        /\ Val(p.specifications.wattage) <= call.max)

\* the products that satisfy every predicate the filter supplies
SatisfiesFilter(p, filter) ==
    IsDef(filter) =>
        LET f == Val(filter)
        IN  /\ IsDef(f.category) => FieldHas(p.category, Val(f.category))
            /\ IsDef(f.minPrice) => Val(p.price) >= Val(f.minPrice)
            /\ IsDef(f.maxPrice) => Val(p.price) <= Val(f.maxPrice)
            /\ IsDef(f.minWattage) => Val(p.specifications.wattage) >= Val(f.minWattage)
            /\ IsDef(f.maxWattage) => Val(p.specifications.wattage) <= Val(f.maxWattage)

\* C9 as claimed: products returns the first min(limit, matches) of the
\* products that satisfy all supplied filter predicates, in ingestion order,
\* for every integer limit.
C9_PrefixOfMatches ==
    CalledAndReturned("products") =>
        LET matches == NormalizedWhere(LAMBDA p : SatisfiesFilter(p, call.filter))
        IN  /\ Len(ret.value) = Min(call.first, Len(matches))
            /\ ret.value = SubSeq(matches, 1, Len(ret.value))

\* the call has a range whose lower bound is above its upper bound
InvertedRange ==
    \/ /\ call.op \in {"productsByPriceRange", "productsByWattage"}
       /\ call.min > call.max
    \/ /\ call.op = "products"
       /\ IsDef(call.filter)
       /\ \/ /\ IsDef(Val(call.filter).minPrice) /\ IsDef(Val(call.filter).maxPrice)
             /\ Val(Val(call.filter).minPrice) > Val(Val(call.filter).maxPrice)
          \/ /\ IsDef(Val(call.filter).minWattage) /\ IsDef(Val(call.filter).maxWattage)
             /\ Val(Val(call.filter).minWattage) > Val(Val(call.filter).maxWattage)

\* C10 as claimed: a range with min > max never raises and yields the empty
\* result, for every catalog.
C10_InvertedRangeIsEmpty ==
    (pc = "serving" /\ call.op # "none" /\ InvertedRange) =>
        /\ ret.status = "returned"
        /\ ret.value = <<>>

\* the catalog of the two file records: the first has the wattage 600 in
\* components.specifications.chunks[0], the second the wattage 900 in
\* specifications.basic
TwoFamilies ==
    LET r == productsData.items
    IN  /\ productsData.type = "array"
        /\ Len(r) = 2
        /\ Chain(FirstChunk(r[1]), "wattage") = Some(600)
        /\ ~IsDef(r[2].components)
        /\ Chain(Chain(r[2].specifications, "basic"), "wattage") = Some(900)

\* C11 as claimed: on that catalog productsByWattage(500, 1000) returns the
\* 600 W product alone, and not the 900 W one.
C11_Only600Returned ==
    (Called("productsByWattage") /\ call.min = 500 /\ call.max = 1000
        /\ TwoFamilies) =>
        /\ ret.status = "returned"
        /\ ret.value = <<TransformValue(productsData.items[1])>>

\* C11 as amended: on that catalog productsByWattage(500, 1000) returns both
\* products, the 600 W one and then the 900 W one, since 900 read from
\* specifications.basic lies in the range too.
C11_BothFamiliesReturned ==
    (Called("productsByWattage") /\ call.min = 500 /\ call.max = 1000
        /\ TwoFamilies) =>
        /\ ret.status = "returned"
        /\ ret.value = <<TransformValue(productsData.items[1]),
                         TransformValue(productsData.items[2])>>
        /\ ret.value[1].specifications.wattage = Some(600)
        /\ ret.value[2].specifications.wattage = Some(900)

\* C11's case: the call on the two-family catalog, answered with two products
C11_Witness ==
    /\ Called("productsByWattage") /\ call.min = 500 /\ call.max = 1000
    /\ TwoFamilies
    /\ ret.status = "returned"
    /\ Len(ret.value) = 2

\* the products a call answered with, whichever resolver it was
ListOps ==
    {"products", "searchProducts", "productsByPriceRange", "productsByWattage",
     "productsByCategory"}
Served ==
    IF pc # "serving" \/ ret.status # "returned" THEN <<>>
    ELSE IF call.op \in ListOps THEN ret.value
    ELSE IF call.op = "product" /\ IsDef(ret.value) THEN <<Val(ret.value)>>
    ELSE <<>>

\* C12 as claimed: every product a query returns has at least one variant,
\* whatever records were loaded.
C12_ServedHaveVariants ==
    \A i \in 1..Len(Served) : Len(Served[i].variants) >= 1

\* C13: when productsByPriceRange(min, max) returns, it returns in ingestion
\* order exactly the products whose price p satisfies min <= p <= max: a
\* product priced at min or at max is included, one priced a penny below min
\* or above max is not.
C13_InclusivePriceRange ==
    CalledAndReturned("productsByPriceRange") =>
        /\ ret.value = NormalizedWhere(LAMBDA p :
                          Val(p.price) >= call.min /\ Val(p.price) <= call.max)
        /\ \A i \in 1..Len(productsData.items) :
              LET r == productsData.items[i]
                  listed == \E j \in 1..Len(ret.value) : ret.value[j] = TransformValue(r)
              IN  /\ RawPrice(r) \in {call.min, call.max} /\ call.min <= call.max
                        => listed
                  /\ RawPrice(r) \in {call.min - 1, call.max + 1} /\ call.min <= call.max
                        => ~listed

\* C13's case: a range that a product priced exactly at max is returned for,
\* on a catalog with a record priced a penny below min, which is not returned
C13_Witness ==
    /\ CalledAndReturned("productsByPriceRange")
    /\ \E j \in 1..Len(ret.value) : ret.value[j].price = Some(call.max)
    /\ \E i \in 1..Len(productsData.items) :
          /\ RawPrice(productsData.items[i]) = call.min - 1
          /\ \A j \in 1..Len(ret.value) :
                ret.value[j] # TransformValue(productsData.items[i])

\* the category strings that occur in the catalog
CategoriesOfCatalog ==
    {Val(productsData.items[i].category) :
        i \in {j \in 1..Len(productsData.items) : IsDef(productsData.items[j].category)}}

\* the strings of a list of optional strings
StringsOf(list) == SelectSeq(list, IsDef)

C15_CategoryEqualIgnoringCase ==
    CalledAndReturned("productsByCategory") =>
        /\ ret.value = NormalizedWhere(LAMBDA p :
                          /\ IsDef(p.category)
                          /\ toLowerCase(Val(p.category)) = toLowerCase(call.category))
        /\ \A i \in 1..Len(ret.value) :
              Len(Val(ret.value[i].category)) = Len(call.category)

\* C15's case: a category written in another case returns the product, and
\* the record of another category is left out
C15_Witness ==
    /\ CalledAndReturned("productsByCategory")
    /\ Len(productsData.items) = 2
    /\ Len(ret.value) = 1
    /\ ret.value[1].category # Some(call.category)
    /\ ret.value[1] = TransformValue(productsData.items[2])

\* a proper substring of the category of a record of the catalog returns
\* nothing
C15_SubstringCase ==
    /\ CalledAndReturned("productsByCategory")
    /\ call.category = "panel"
    /\ \E i \in 1..Len(productsData.items) :
          productsData.items[i].category = Some("Panel Heaters")
    /\ ret.value = <<>>

\* the records of the catalog whose id is exactly id, in ingestion order
RecordsWithId(id) == SelectSeq(productsData.items, LAMBDA r : r.id = Some(id))

\* C16: product(id) returns null, and does not raise, when no record of the
\* catalog has exactly that id; when one has it, and transformProduct returns
\* on it, product(id) returns its normalized product, whose id is id.
C16_ByIdOrNull ==
    Called("product") =>
        LET found == RecordsWithId(call.id)
        IN  /\ found = <<>> => ret = Returned(None)
            /\ (found # <<>> /\ ~TransformThrows(found[1])) =>
                  /\ ret = Returned(Some(TransformValue(found[1])))
                  /\ Val(ret.value).id = Some(call.id)
            /\ (ret.status = "returned" /\ IsDef(ret.value)) =>
                  Val(ret.value).id = Some(call.id)

\* C16's case: the second record of the catalog has the id asked for, and
\* its product is returned
C16_Witness ==
    /\ Called("product")
    /\ Len(productsData.items) = 2
    /\ productsData.items[1].id # Some(call.id)
    /\ productsData.items[2].id = Some(call.id)
    /\ ret = Returned(Some(TransformValue(productsData.items[2])))

\* an id that differs from the id of a record in case only: null is returned
C16_AbsentCase ==
    /\ Called("product")
    /\ call.id = "IR-600"
    /\ \E i \in 1..Len(productsData.items) : productsData.items[i].id = Some("ir-600")
    /\ ret = Returned(None)

\* C17: when transformProduct returns on a record whose
\* components.specifications.chunks[0].wattage is W, the wattage returned is
\* W, whatever specifications.basic.wattage is; on a record with neither
\* components.specifications nor specifications, the wattage returned is 0
\* and the mounting "Wall mounted".
C17_ChunkWattageFirst ==
    NormReturned =>
        LET r == call.product
            W == Chain(FirstChunk(r), "wattage")
            out == ret.value.specifications
        IN  /\ IsDef(W) => out.wattage = W
            /\ (~IsDef(Chain(r.components, "specifications")) /\ ~IsDef(r.specifications))
                  => (out.wattage = Some(0) /\ out.mounting = Some("Wall mounted"))

\* C17's case: chunks[0].wattage is 600 and specifications.basic.wattage is
\* 900, and 600 is returned
C17_Witness ==
    /\ NormReturned
    /\ Chain(FirstChunk(call.product), "wattage") = Some(600)
    /\ Chain(Chain(call.product.specifications, "basic"), "wattage") = Some(900)
    /\ ret.value.specifications.wattage = Some(600)

\* a record without any specifications block returns 0 and "Wall mounted"
C17_NoSpecificationsCase ==
    /\ NormReturned
    /\ ~IsDef(Chain(call.product.components, "specifications"))
    /\ ~IsDef(call.product.specifications)
    /\ ret.value.specifications.wattage = Some(0)
    /\ ret.value.specifications.mounting = Some("Wall mounted")

\* C19: when the primary file is missing and the secondary file is present
\* and valid, loadProductData returns with the secondary file's records
\* loaded and a metadata source other than "sample_data": the source the
\* file's metadata names, or "legacy_data" for a file that is a bare array.
C19_SecondaryLoaded ==
    (pc = "loaded" /\ primary.state = "missing" /\ ValidFile(secondary)) =>
        /\ ret.status = "returned"
        /\ productsData = Array(RecordsOf(secondary))
        /\ productsMetadata.source # Some("sample_data")
        /\ productsMetadata.source =
              IF Val(secondary.json).type = "array" THEN Some("legacy_data")
              ELSE Val(Val(secondary.json).metadata).source

\* C19's case: the primary file is missing, the secondary is an envelope of
\* records with metadata, and its records and its source are what got loaded
C19_Witness ==
    /\ pc = "loaded"
    /\ primary.state = "missing"
    /\ ValidFile(secondary)
    /\ Val(secondary.json).type = "object"
    /\ productsData = Array(RecordsOf(secondary))
    /\ productsMetadata.source = Some("enhanced_scraper")

\* C21: while the server answers queries (products, product, categories,
\* productsByCategory, searchProducts, productsByPriceRange,
\* productsByWattage, metadata, in any sequence), productsData, with its
\* records, their fields and their order, and productsMetadata are the values
\* loadProductData left.
C21_QueriesLeaveCatalog ==
    pc = "serving" =>
        /\ productsData = LoadOutcome(primary, secondary).data
        /\ productsMetadata = LoadOutcome(primary, secondary).meta

\* C21's case: categories answered with the categories in an order that is
\* not the order of the records, which are where they were
C21_Witness ==
    /\ CalledAndReturned("categories")
    /\ Len(productsData.items) = 2
    /\ ret.value = <<productsData.items[2].category, productsData.items[1].category>>
    /\ productsData = LoadOutcome(primary, secondary).data

\* C22: when metadata() returns, its totalProducts is the number of records
\* in productsData and its categories is what categories() returns, whatever
\* totalProducts and categories the loaded metadata carries; scrapedAt and
\* source are never absent, source being "unknown" when the loaded metadata
\* has none.
C22_MetadataIsLive ==
    (pc = "listening" /\ call.op = "metadata" /\ ret.status = "returned") =>
        /\ ret.value.totalProducts = Some(Len(productsData.items))
        /\ Returned(ret.value.categories) = categories(productsData)
        /\ IsDef(ret.value.scrapedAt)
        /\ IsDef(ret.value.source)
        /\ ~IsDef(productsMetadata.source) => ret.value.source = Some("unknown")
        /\ IsDef(productsMetadata.source) => ret.value.source = productsMetadata.source

\* C22's case: the loaded metadata says 7 products and lists the categories
\* in another order; metadata() reports the 2 records held and the sorted
\* categories
C22_Witness ==
    /\ pc = "listening" /\ call.op = "metadata" /\ ret.status = "returned"
    /\ productsMetadata.totalProducts = Some(7)
    /\ ret.value.totalProducts = Some(2)
    /\ IsDef(productsMetadata.categories)
    /\ Len(ret.value.categories) = 2
    /\ Val(productsMetadata.categories) #
          [i \in 1..2 |-> Val(ret.value.categories[i])]

\* the loaded metadata has neither scrapedAt nor source
C22_FallbackCase ==
    /\ pc = "listening" /\ call.op = "metadata" /\ ret.status = "returned"
    /\ productsMetadata = EmptyMetadata
    /\ ret.value.source = Some("unknown")
    /\ ret.value.scrapedAt = Some(Now)

---------------------------------------------------------------------------
(* createAuthContext: corrected-auth-test.js lines 896-946, server.js lines
   270-316, test-auth-fix.js lines 22-43 *)

\* String.prototype.replace(pattern, '') with a string pattern: the first
\* occurrence is removed, wherever it is
ReplaceFirst(s, pattern) ==
    IF ~includes(s, pattern) THEN s
    ELSE LET i == CHOOSE j \in 1..(Len(s) - Len(pattern) + 1) :
                     /\ SubSeq(s, j, j + Len(pattern) - 1) = pattern
                     /\ \A k \in 1..(j - 1) : SubSeq(s, k, k + Len(pattern) - 1) # pattern
         IN  SubSeq(s, 1, i - 1) \o SubSeq(s, i + Len(pattern), Len(s))

\* the JSON web tokens in circulation, with the secret each is signed with
IssuedTokens ==
    { [token |-> "jwt.alice.sig-1", secret |-> "secret-1", expired |-> FALSE,
       payload |-> "alice"],
      [token |-> "jwt.bob.sig-2", secret |-> "secret-2", expired |-> FALSE,
       payload |-> "bob"],
      [token |-> "jwt.carol.sig-1", secret |-> "secret-1", expired |-> TRUE,
       payload |-> "carol"] }

\* jwt.verify(token, secret): the payload of a token signed with that secret
\* and not expired; it throws on anything else
jwtVerify(token, secret) ==
    IF \E t \in IssuedTokens : t.token = token /\ t.secret = secret /\ ~t.expired
    THEN Returned((CHOOSE t \in IssuedTokens : t.token = token).payload)
    ELSE Threw

\* process.env when the module is loaded, and the header of the request
Env(nodeEnv, authRequired, apiKey, jwtSecret) ==
    [NODE_ENV |-> nodeEnv, AUTH_REQUIRED |-> authRequired, API_KEY |-> apiKey,
     JWT_SECRET |-> jwtSecret]

\* const AUTH_REQUIRED = process.env.AUTH_REQUIRED === 'true'
AUTH_REQUIRED(env) == env.AUTH_REQUIRED = Some("true")

\* the contexts returned
Context(authenticated, role, apiKey, decoded) ==
    [authenticated |-> authenticated,
     user |-> [role |-> role, apiKey |-> apiKey, decoded |-> decoded]]
DevelopmentContext == Context(TRUE, Some("development"), None, None)

\* the checks on the Authorization header, the same in both servers
\* (corrected-auth-test.js lines 908-945, server.js lines 278-315)
CheckToken(env, authorization) ==
    IF ~TruthyStr(authorization) THEN Threw
    ELSE LET token == ReplaceFirst(Val(authorization), "Bearer ")
         IN  IF token = "" THEN Threw
             ELSE IF TruthyStr(env.API_KEY) /\ token = Val(env.API_KEY)
             THEN Returned(Context(TRUE, Some("frontend_client"), Some(token), None))
             ELSE IF TruthyStr(env.JWT_SECRET)
                     /\ jwtVerify(token, Val(env.JWT_SECRET)).status = "returned"
             THEN Returned(Context(TRUE, None, None,
                                   Some(jwtVerify(token, Val(env.JWT_SECRET)).value)))
             ELSE Threw

\* createAuthContext of corrected-auth-test.js
createAuthContext(env, authorization) ==
    IF ~AUTH_REQUIRED(env) THEN Returned(DevelopmentContext)
    ELSE CheckToken(env, authorization)

\* createAuthContext of server.js
createAuthContextOfServer(env, authorization) ==
    IF env.NODE_ENV = Some("development") /\ ~AUTH_REQUIRED(env)
    THEN Returned(DevelopmentContext)
    ELSE CheckToken(env, authorization)

\* createAuthContext of test-auth-fix.js, which ends in
\* return { authenticated: false }
createAuthContextOfTest(env, authorization) ==
    IF ~AUTH_REQUIRED(env) THEN Returned(DevelopmentContext)
    ELSE IF ~TruthyStr(authorization) THEN Threw
    ELSE Returned(Context(FALSE, None, None, None))

NodeEnvChoices == {None, Some("production"), Some("development")}
AuthRequiredChoices == {None, Some("true"), Some("false"), Some("TRUE")}
ApiKeyChoices == {None, Some("key-1")}
JwtSecretChoices == {None, Some("secret-1")}
AuthorizationChoices ==
    {None, Some(""), Some("Bearer "), Some("Bearer key-1"), Some("key-1"),
     Some("key-Bearer 1"), Some("Bearer wrong"), Some("Bearer Bearer key-1"),
     Some("Bearer jwt.alice.sig-1"), Some("jwt.alice.sig-1"),
     Some("Bearer jwt.bob.sig-2"), Some("Bearer jwt.carol.sig-1")}
ServerFiles == {"corrected-auth-test.js", "server.js", "test-auth-fix.js"}

InitAuth ==
    /\ pc = "request"
    /\ primary = MissingFile
    /\ secondary = MissingFile
    /\ productsData = EmptyProductsData
    /\ productsMetadata = EmptyMetadata
    /\ call \in {[op |-> "createAuthContext", file |-> f,
                  env |-> Env(n, a, k, j), authorization |-> h] :
                    f \in ServerFiles, n \in NodeEnvChoices, a \in AuthRequiredChoices,
                    k \in ApiKeyChoices, j \in JwtSecretChoices,
                    h \in AuthorizationChoices}
    /\ ret = Pending

CreateAuthContext ==
    /\ pc = "request"
    /\ call.file = "corrected-auth-test.js"
    /\ ret.status = "pending"
    /\ ret' = createAuthContext(call.env, call.authorization)
    /\ UNCHANGED <<pc, primary, secondary, productsData, productsMetadata, call>>

CreateAuthContextOfServer ==
    /\ pc = "request"
    /\ call.file = "server.js"
    /\ ret.status = "pending"
    /\ ret' = createAuthContextOfServer(call.env, call.authorization)
    /\ UNCHANGED <<pc, primary, secondary, productsData, productsMetadata, call>>

CreateAuthContextOfTest ==
    /\ pc = "request"
    /\ call.file = "test-auth-fix.js"
    /\ ret.status = "pending"
    /\ ret' = createAuthContextOfTest(call.env, call.authorization)
    /\ UNCHANGED <<pc, primary, secondary, productsData, productsMetadata, call>>

NextAuth ==
    \/ CreateAuthContext
    \/ CreateAuthContextOfServer
    \/ CreateAuthContextOfTest

SpecAuth == InitAuth /\ [][NextAuth]_vars

\* the call has been answered: a context returned, or an error thrown
AuthAnswered == pc = "request" /\ ret.status # "pending"

\* the request carries a valid credential: its header with the prefix
\* "Bearer " taken off, if it has one, is the API key configured or a token
\* that verifies under the JWT secret configured
WithoutPrefix(h) ==
    IF Len(h) >= 7 /\ SubSeq(h, 1, 7) = "Bearer " THEN SubSeq(h, 8, Len(h)) ELSE h
ValidCredential(env, authorization) ==
    /\ IsDef(authorization)
    /\ \/ env.API_KEY = Some(WithoutPrefix(Val(authorization)))
       \/ /\ IsDef(env.JWT_SECRET)
          /\ jwtVerify(WithoutPrefix(Val(authorization)), Val(env.JWT_SECRET)).status
                = "returned"

\* the header has "Bearer " at its start or nowhere, so that taking the
\* prefix off and removing the first occurrence are the same
PrefixOnly(authorization) ==
    ~IsDef(authorization)
    \/ ReplaceFirst(Val(authorization), "Bearer ") = WithoutPrefix(Val(authorization))

\* C23 as claimed: with NODE_ENV "production", a request without a valid API
\* key or JWT is rejected by createAuthContext of corrected-auth-test.js and
\* of server.js, whatever AUTH_REQUIRED is.
C23_ProductionRejects ==
    (AuthAnswered /\ call.file \in {"corrected-auth-test.js", "server.js"}
        /\ call.env.NODE_ENV = Some("production")
        /\ PrefixOnly(call.authorization)
        /\ ~ValidCredential(call.env, call.authorization)) =>
        ret.status = "threw"

\* C23 holds of server.js, which grants access without a credential only
\* when NODE_ENV is "development"
C23_ServerFileRejects ==
    (AuthAnswered /\ call.file = "server.js"
        /\ call.env.NODE_ENV = Some("production")
        /\ PrefixOnly(call.authorization)
        /\ ~ValidCredential(call.env, call.authorization)) =>
        ret.status = "threw"

\* C24 as claimed: when AUTH_REQUIRED is not the string "true",
\* createAuthContext (of test-auth-fix.js, corrected-auth-test.js and
\* server.js) does not throw and returns an authenticated context with role
\* "development", for every request, one without Authorization header
\* included.
C24_NotRequiredGrants ==
    (AuthAnswered /\ ~AUTH_REQUIRED(call.env)) => ret = Returned(DevelopmentContext)

\* C24 holds of corrected-auth-test.js and of test-auth-fix.js
C24_CorrectedFilesGrant ==
    (AuthAnswered /\ ~AUTH_REQUIRED(call.env) /\ call.file # "server.js") =>
        ret = Returned(DevelopmentContext)

\* C28 as claimed: when AUTH_REQUIRED is "true", createAuthContext (of
\* corrected-auth-test.js and of server.js) returns an authenticated context
\* if the request has an Authorization header that, with the prefix
\* "Bearer " taken off, equals API_KEY or verifies as a JWT under JWT_SECRET,
\* and throws in every other case.
C28_OnlyValidCredential ==
    (AuthAnswered /\ AUTH_REQUIRED(call.env)
        /\ call.file \in {"corrected-auth-test.js", "server.js"}) =>
        IF ValidCredential(call.env, call.authorization)
        THEN ret.status = "returned" /\ ret.value.authenticated
        ELSE ret.status = "threw"

\* C28 holds on the headers that have "Bearer " at their start or nowhere
C28_OnPrefixOnlyHeaders ==
    (AuthAnswered /\ AUTH_REQUIRED(call.env)
        /\ call.file \in {"corrected-auth-test.js", "server.js"}
        /\ PrefixOnly(call.authorization)) =>
        IF ValidCredential(call.env, call.authorization)
        THEN ret.status = "returned" /\ ret.value.authenticated
        ELSE ret.status = "threw"

\* the variants of the record normalized, and those of the product returned
RawVariants == Val(call.product.variants)
OutVariants == ret.value.variants

\* C25 as claimed: the stock of a variant returned is 10 exactly when the raw
\* variant has no stock; a stock the raw variant has, 0 included, is returned
\* unchanged.
C25_StockCarriedThrough ==
    NormReturned =>
        \A i \in 1..Len(RawVariants) :
           IF IsDef(RawVariants[i].stock)
           THEN OutVariants[i].stock = RawVariants[i].stock
           ELSE OutVariants[i].stock = Some(DefaultStock)

\* the description html the raw record supplies, and whether it supplies a
\* plain text with it
RawDescriptionHtml ==
    LET content == Chain(Chain(call.product.components, "description"), "content")
    IN  IF IsDef(content) THEN Val(content).html
        ELSE Chain(call.product.information, "description")
RawDescriptionPlainText ==
    Chain(Chain(Chain(call.product.components, "description"), "content"), "plainText")

\* C26 as claimed: the description returned has html and plainText, for every
\* raw record; when the record supplies description html (in
\* components.description.content or information.description) and no plain
\* text, plainText is that html with the tags stripped.
C26_PlainTextFromHtml ==
    NormReturned =>
        /\ IsDef(ret.value.description.html)
        /\ IsDef(ret.value.description.plainText)
        /\ (IsDef(RawDescriptionHtml) /\ ~IsDef(RawDescriptionPlainText)) =>
              ret.value.description.plainText = Some(StripTags(Val(RawDescriptionHtml)))

\* C26 holds of the records whose description is under information
C26_OfInformationDescription ==
    (NormReturned
        /\ ~IsDef(Chain(Chain(call.product.components, "description"), "content"))) =>
        /\ IsDef(ret.value.description.html)
        /\ IsDef(ret.value.description.plainText)
        /\ IsDef(RawDescriptionHtml) =>
              ret.value.description.plainText = Some(StripTags(Val(RawDescriptionHtml)))

\* C27: a variant returned has isDefault = true if and only if the raw
\* variant is flagged isDefault or stands at position 0; so the variant at
\* position 0 of a product returned is a default variant, and a product with
\* a variant has a default variant.
C27_DefaultIffFlaggedOrFirst ==
    NormReturned =>
        /\ \A i \in 1..Len(RawVariants) :
              OutVariants[i].isDefault =
                 Some(RawVariants[i].isDefault = Some(TRUE) \/ i = 1)
        /\ Len(OutVariants) >= 1 => OutVariants[1].isDefault = Some(TRUE)
        /\ Len(OutVariants) >= 1 =>
              \E i \in 1..Len(OutVariants) : OutVariants[i].isDefault = Some(TRUE)

\* C27's case: the variant at position 0 is flagged isDefault: false and is
\* returned as default; the second is not flagged and is returned as not
\* default
C27_Witness ==
    /\ NormReturned
    /\ Len(RawVariants) = 2
    /\ RawVariants[1].isDefault = Some(FALSE)
    /\ ~IsDef(RawVariants[2].isDefault)
    /\ OutVariants[1].isDefault = Some(TRUE)
    /\ OutVariants[2].isDefault = Some(FALSE)

\* C29 as claimed: after loadProductData the catalog is the generated sample
\* records if and only if productsMetadata.source is "sample_data", whatever
\* the two files are, a file that holds an empty product list included.
C29_SourceTagMatchesOrigin ==
    pc = "loaded" =>
        (productsData = Array(generateSampleProducts)
            <=> productsMetadata.source = Some("sample_data"))

\* C29 holds in one direction: with the source "sample_data" the catalog is
\* the sample records
C29_SampleTagMeansSample ==
    (pc = "loaded" /\ productsMetadata.source = Some("sample_data")) =>
        productsData = Array(generateSampleProducts)

---------------------------------------------------------------------------
(* importProducts and publishProduct (src/unnamed/part_003, lines 130-212
   and 257-279): one step per awaited request *)

MaxItems == 3

\* const results = { success: 0, failed: 0, skipped: 0 }
Results(success, failed, skipped) ==
    [success |-> success, failed |-> failed, skipped |-> skipped]

\* what the catalogue API can answer to the three requests: a response that
\* carries the data asked for, one that carries null instead, one with
\* errors and no data, one without the field read next, and a request that
\* rejects (network error, invalid JSON)
ExistsOutcomes == {"found", "absent", "errors", "rejected"}
CreateOutcomes == {"created", "errors", "null", "unexpected", "rejected"}
PublishOutcomes == {"published", "errors", "rejected"}

\* the importer at item i (counted from 1) of importData, about to send the
\* request named by at; an item is modelled by whether it has a catalogueItem;
\* requests is the log of the requests sent and counted the log of the
\* counters incremented, both with the item they are for
Importer(importData, i, at, results, requests, counted) ==
    [op |-> "importProducts", importData |-> importData, n |-> Len(importData),
     i |-> i, at |-> at, results |-> results,
     requests |-> requests, counted |-> counted]

\* the lists of at most MaxItems items
ImportLists ==
    UNION {[1..n -> BOOLEAN] : n \in 0..MaxItems}

InitImport ==
    /\ pc = "importing"
    /\ primary = MissingFile
    /\ secondary = MissingFile
    /\ productsData = EmptyProductsData
    /\ productsMetadata = EmptyMetadata
    /\ call \in {Importer(importData, 1, "exists", Results(0, 0, 0), <<>>, <<>>) :
                   importData \in ImportLists}
    /\ ret = Pending

\* results.<counter>++ for the item at hand
Count(counter) ==
    [call EXCEPT !.results[counter] = @ + 1,
                 !.counted = Append(@, [item |-> call.i, as |-> counter])]
Sent(kind) == Append(call.requests, [item |-> call.i, kind |-> kind])

\* lines 134-137 and 206: item.catalogueItem.name of an item without
\* catalogueItem throws in the try block, and again in the catch block that
\* handles it, so importProducts rejects
RejectItem ==
    /\ pc = "importing"
    /\ call.at = "exists"
    /\ call.i <= call.n
    /\ ~call.importData[call.i]
    /\ pc' = "rejected"
    /\ ret' = Threw
    /\ UNCHANGED <<primary, secondary, productsData, productsMetadata, call>>

\* lines 137-159 and the catch of lines 205-208: the existence check
CheckExists ==
    /\ pc = "importing"
    /\ call.at = "exists"
    /\ call.i <= call.n
    /\ call.importData[call.i]
    /\ \E outcome \in ExistsOutcomes :
          call' = IF outcome = "found"
                  THEN [Count("skipped") EXCEPT !.i = @ + 1, !.requests = Sent("exists")]
                  ELSE IF outcome = "absent"
                  THEN [call EXCEPT !.at = "create", !.requests = Sent("exists")]
                  ELSE [Count("failed") EXCEPT !.i = @ + 1, !.requests = Sent("exists")]
    /\ UNCHANGED <<pc, primary, secondary, productsData, productsMetadata, ret>>

\* lines 162-200 and the catch of lines 205-208: the create mutation
CreateProduct ==
    /\ pc = "importing"
    /\ call.at = "create"
    /\ \E outcome \in CreateOutcomes :
          call' = IF outcome = "created"
                  THEN [Count("success") EXCEPT !.at = "publish",
                                                !.requests = Sent("create")]
                  ELSE IF outcome \in {"errors", "null"}
                  THEN [Count("failed") EXCEPT !.at = "pause",
                                               !.requests = Sent("create")]
                  ELSE [Count("failed") EXCEPT !.at = "exists", !.i = @ + 1,
                                               !.requests = Sent("create")]
    /\ UNCHANGED <<pc, primary, secondary, productsData, productsMetadata, ret>>

\* publishProduct, lines 257-279: whatever the answer, it returns
PublishProduct ==
    /\ pc = "importing"
    /\ call.at = "publish"
    /\ \E outcome \in PublishOutcomes :
          call' = [call EXCEPT !.at = "pause", !.requests = Sent("publish")]
    /\ UNCHANGED <<pc, primary, secondary, productsData, productsMetadata, ret>>

\* line 203: the pause between two items
Pause ==
    /\ pc = "importing"
    /\ call.at = "pause"
    /\ call' = [call EXCEPT !.at = "exists", !.i = @ + 1]
    /\ UNCHANGED <<pc, primary, secondary, productsData, productsMetadata, ret>>

\* line 211: return results
ReturnResults ==
    /\ pc = "importing"
    /\ call.at = "exists"
    /\ call.i > call.n
    /\ pc' = "imported"
    /\ ret' = Returned(call.results)
    /\ UNCHANGED <<primary, secondary, productsData, productsMetadata, call>>

NextImport ==
    \/ RejectItem
    \/ CheckExists
    \/ CreateProduct
    \/ PublishProduct
    \/ Pause
    \/ ReturnResults

\* every awaited request is answered or rejects: the importer goes on
SpecImport == InitImport /\ [][NextImport]_vars /\ WF_vars(NextImport)

\* the entries of a log that are for item k
OfItem(log, k) == SelectSeq(log, LAMBDA e : e.item = k)
\* the position of the first request of that kind for item k, 0 if none
FirstSent(kind, k) ==
    IF \E j \in 1..Len(call.requests) : call.requests[j] = [item |-> k, kind |-> kind]
    THEN CHOOSE j \in 1..Len(call.requests) :
            /\ call.requests[j] = [item |-> k, kind |-> kind]
            /\ \A h \in 1..(j - 1) : call.requests[h] # [item |-> k, kind |-> kind]
    ELSE 0

\* the accounting of importProducts, at every point of its run
ImportAccounting ==
    pc \in {"importing", "imported", "rejected"} =>
        LET r == call.results
        IN  \* an item is counted once, and the counters are those counts
            /\ \A k \in 1..call.n : Len(OfItem(call.counted, k)) <= 1
            /\ \A c \in {"success", "failed", "skipped"} :
                  r[c] = Len(SelectSeq(call.counted, LAMBDA e : e.as = c))
            \* returned: every item is counted, and the sum is N
            /\ pc = "imported" =>
                  /\ ret = Returned(r)
                  /\ \A k \in 1..call.n : Len(OfItem(call.counted, k)) = 1
                  /\ r.success + r.failed + r.skipped = call.n
            \* an item found to exist is skipped, and no create is sent for it
            /\ \A k \in 1..call.n :
                  OfItem(call.counted, k) = <<[item |-> k, as |-> "skipped"]>>
                     => FirstSent("create", k) = 0
            \* a publish is sent after the create of its item succeeded
            /\ \A k \in 1..call.n :
                  FirstSent("publish", k) # 0 =>
                     /\ FirstSent("create", k) # 0
                     /\ FirstSent("create", k) < FirstSent("publish", k)
                     /\ OfItem(call.counted, k) = <<[item |-> k, as |-> "success"]>>

\* C30: importProducts returns, for every list of N items and every answer
\* to its requests, and it counts every item once: success + failed + skipped
\* = N on return; an item whose path exists is skipped and no create request
\* is sent for it; a publish request is sent only after the create request
\* of its item succeeded.
C30_EveryItemCountedOnce ==
    /\ []ImportAccounting
    /\ <>(pc = "imported")

\* what holds of C30: the accounting holds at every point, and importProducts
\* returns unless it meets an item without catalogueItem, where it rejects
C30_UnlessItemWithoutCatalogueItem ==
    /\ []ImportAccounting
    /\ [](pc = "rejected" => (ret = Threw /\ ~call.importData[call.i]))
    /\ <>(pc \in {"imported", "rejected"})

\* three items, one skipped, one created and published, one failed, and the
\* results returned
C30_AllOutcomesCase ==
    /\ pc = "imported"
    /\ call.n = 3
    /\ ret = Returned(Results(1, 1, 1))
    /\ \E k \in 1..3 : FirstSent("publish", k) # 0

=============================================================================
